---------------------------- MODULE Spec2Model ----------------------------
(***************************************************************************)
(* ef80escape: lossless conversion between bytes and UTF-8 text.           *)
(*                                                                         *)
(* bytes_to_str maps every byte that is not part of well-formed UTF-8 to   *)
(* a codepoint of U+EF80..U+EFFF and prefixes U+EF00 to every codepoint of *)
(* the input that is U+EF00 or in U+EF80..U+EFFF; str_to_bytes inverts it. *)
(* Both functions are modelled loop iteration by loop iteration.  A run is *)
(* either the round trip of tests::check_round_trip and the fuzz target    *)
(* (bytes_to_str, then str_to_bytes on its result) or one call of          *)
(* str_to_bytes on a text of the caller's.                                 *)
(***************************************************************************)
EXTENDS Integers, Sequences, FiniteSets

VARIABLES
    mode,     \* "roundtrip": check_round_trip(data); "decode": str_to_bytes(s)
    pc,       \* position of the run
    data,     \* bytes_to_str: the input slice
    rest,     \* bytes_to_str: the unprocessed suffix of data
    result,   \* the Vec<u8> under construction (of the function running)
    sKind,    \* Cow variant of bytes_to_str's return value
    s,        \* the text: bytes_to_str's return value, str_to_bytes' input
    i,        \* str_to_bytes: 1-based index of the next byte the iterator yields
    escaped,  \* str_to_bytes: the escaped flag
    dKind,    \* Cow variant of str_to_bytes' return value
    d         \* str_to_bytes' return value

vars == <<mode, pc, data, rest, result, sKind, s, i, escaped, dKind, d>>

----------------------------------------------------------------------------
(* Bounds of the model.                                                    *)

\* An input of bytes_to_str is the concatenation of at most MaxChunks chunks,
\* each a single byte of RawBytes or the UTF-8 form of a char of EncChars.
MaxChunks == 3
\* A text given to str_to_bytes directly has at most MaxChars chars of TextChars.
MaxChars == 3

RawBytes == {\h61, \h80, \hBC, \hBE, \hBF, \hC3, \hEE, \hF0, \hFF}
EncChars == {\hE9, \hE000, \hEF00, \hEF01, \hEF7F, \hEF80, \hEFFF}
TextChars == {\h61, \hE9, \hE000, \hEF00, \hEF01, \hEF7F, \hEF80, \hEFBF,
              \hEFC0, \hEFFF, \h1F926}

----------------------------------------------------------------------------
(* u8 arithmetic.                                                          *)

Bit(a, k) == (a \div 2^k) % 2

RECURSIVE BitFold(_, _, _, _)
BitFold(a, b, k, op) ==
    IF k = 8 THEN 0
    ELSE LET x == Bit(a, k)
             y == Bit(b, k)
             r == CASE op = "and" -> x * y
                    [] op = "or"  -> IF x + y > 0 THEN 1 ELSE 0
                    [] op = "xor" -> (x + y) % 2
         IN  r * 2^k + BitFold(a, b, k + 1, op)

And8(a, b) == BitFold(a, b, 0, "and")
Or8(a, b)  == BitFold(a, b, 0, "or")
Xor8(a, b) == BitFold(a, b, 0, "xor")
Shr8(a, n) == a \div 2^n
Shl8(a, n) == (a * 2^n) % 256
Add8(a, b) == (a + b) % 256

Contains(bytes, b) == \E k \in 1..Len(bytes) : bytes[k] = b

----------------------------------------------------------------------------
(* UTF-8: char::encode_utf8 / str::as_bytes, and std::str::from_utf8.      *)

\* The UTF-8 form of one char (a Unicode scalar value).
Utf8Char(c) ==
    IF c < \h80 THEN <<c>>
    ELSE IF c < \h800 THEN <<\hC0 + (c \div 64), \h80 + (c % 64)>>
    ELSE IF c < \h10000 THEN
        <<\hE0 + (c \div 4096), \h80 + ((c \div 64) % 64), \h80 + (c % 64)>>
    ELSE <<\hF0 + (c \div 262144), \h80 + ((c \div 4096) % 64),
           \h80 + ((c \div 64) % 64), \h80 + (c % 64)>>

\* The bytes of a str holding the chars cs.
RECURSIVE AsBytes(_)
AsBytes(cs) == IF cs = <<>> THEN <<>> ELSE Utf8Char(Head(cs)) \o AsBytes(Tail(cs))

IsCont(b) == b >= \h80 /\ b <= \hBF

\* Width of the well-formed UTF-8 sequence starting at bytes[p], 0 when
\* there is none (ill-formed or cut short), as from_utf8 decides it.
SeqWidth(bytes, p) ==
    LET n == Len(bytes)
        b0 == bytes[p]
        At(k) == IF p + k <= n THEN bytes[p + k] ELSE 0
        b1 == At(1)
    IN  IF b0 < \h80 THEN 1
        ELSE IF b0 >= \hC2 /\ b0 <= \hDF THEN
            IF IsCont(b1) THEN 2 ELSE 0
        ELSE IF b0 >= \hE0 /\ b0 <= \hEF THEN
            IF /\ \/ (b0 = \hE0 /\ b1 >= \hA0 /\ b1 <= \hBF)
                  \/ (b0 = \hED /\ b1 >= \h80 /\ b1 <= \h9F)
                  \/ (b0 \notin {\hE0, \hED} /\ IsCont(b1))
               /\ IsCont(At(2))
            THEN 3 ELSE 0
        ELSE IF b0 >= \hF0 /\ b0 <= \hF4 THEN
            IF /\ \/ (b0 = \hF0 /\ b1 >= \h90 /\ b1 <= \hBF)
                  \/ (b0 = \hF4 /\ b1 >= \h80 /\ b1 <= \h8F)
                  \/ (b0 \notin {\hF0, \hF4} /\ IsCont(b1))
               /\ IsCont(At(2))
               /\ IsCont(At(3))
            THEN 4 ELSE 0
        ELSE 0

\* Utf8Error::valid_up_to: the length of the longest well-formed prefix
\* (counted from position p); Len(bytes) exactly when from_utf8 is Ok.
RECURSIVE ValidFrom(_, _)
ValidFrom(bytes, p) ==
    IF p > Len(bytes) THEN Len(bytes)
    ELSE LET w == SeqWidth(bytes, p)
         IN  IF w = 0 THEN p - 1 ELSE ValidFrom(bytes, p + w)

valid_up_to(bytes) == ValidFrom(bytes, 1)

from_utf8_ok(bytes) == valid_up_to(bytes) = Len(bytes)

----------------------------------------------------------------------------
(* The crate's pure parts.                                                 *)

\* Mutant: the escape marker itself is not recognised.
need_escape_NoMarker(b1, b2) ==
    Or8(b1, 1) = \hBF /\ b2 >= \h80 /\ b2 <= \hBF

\* Mutant: every char of U+EF00..U+EFFF is taken for a reserved one.
need_escape_Loose(b1, b2) ==
    b1 >= \hBC /\ b1 <= \hBF /\ b2 >= \h80 /\ b2 <= \hBF

\* Whether the bytes [0xEE, b1, b2] are U+EF00 or one of U+EF80..U+EFFF.
need_escape(b1, b2) ==
    \/ (b1 = \hBC /\ b2 = \h80)
    \/ (Or8(b1, 1) = \hBF /\ b2 >= \h80 /\ b2 <= \hBF)

\* bytes_to_str's inner fn: out extended with utf8_bytes, U+EF00 pushed
\* before every 0xEE that starts a unit need_escape accepts.
RECURSIVE EscapeFrom(_, _, _)
EscapeFrom(utf8_bytes, k, out) ==
    IF k > Len(utf8_bytes) THEN out
    ELSE LET b == utf8_bytes[k]
             pre == IF /\ b = \hEE
                       /\ k + 2 <= Len(utf8_bytes)
                       /\ need_escape(utf8_bytes[k + 1], utf8_bytes[k + 2])
                    THEN <<\hEE, \hBC, \h80>>
                    ELSE <<>>
         IN  EscapeFrom(utf8_bytes, k + 1, out \o pre \o <<b>>)

extend_escaped_utf8(utf8_bytes, out) == EscapeFrom(utf8_bytes, 1, out)

\* Mutant: bit 6 of the byte is set, not cleared, in the third byte.
InvalidByteUnit_KeepBit6(b) ==
    <<\hEE, Add8(\hBE, Shr8(Xor8(b, 128), 6)), Or8(b, \h40)>>

\* Mutant: the second byte does not take bit 6 of the byte.
InvalidByteUnit_LowLead(b) ==
    <<\hEE, \hBE, Xor8(Or8(b, \h40), \h40)>>

\* The three bytes bytes_to_str appends for the byte b that failed validation.
InvalidByteUnit(b) ==
    <<\hEE, Add8(\hBE, Shr8(Xor8(b, 128), 6)), Xor8(Or8(b, \h40), \h40)>>

\* Mutant: the failing byte is not skipped.
AdvancePast_Stuck(bytes, l) == SubSeq(bytes, l + 1, Len(bytes))

\* The suffix bytes_to_str goes on with after the failure at offset l.
AdvancePast(bytes, l) == SubSeq(bytes, l + 2, Len(bytes))

\* Mutant: only one bit of b1 is kept.
BandByte_OneBit(b1, b2) == Or8(Shl8(And8(b1, 1), 6), And8(b2, 63))

\* The byte str_to_bytes pushes for an unescaped [0xEE, b1, b2] of the band.
BandByte(b1, b2) == Or8(Shl8(And8(b1, 3), 6), And8(b2, 63))

\* Mutant: the arm for U+EF00 does not look at the flag.
DecodeIter_MarkerFirst(bytes, k, esc, out) ==
    LET b == bytes[k]
    IN  IF /\ b = \hEE
           /\ k + 2 <= Len(bytes)
           /\ need_escape(bytes[k + 1], bytes[k + 2])
        THEN LET b1 == bytes[k + 1]
                 b2 == bytes[k + 2]
             IN  IF b1 = \hBC
                 THEN [i |-> k + 3, escaped |-> TRUE, result |-> out]
                 ELSE IF esc
                 THEN [i |-> k + 3, escaped |-> FALSE,
                       result |-> out \o <<b, b1, b2>>]
                 ELSE [i |-> k + 3, escaped |-> esc,
                       result |-> Append(out, BandByte(b1, b2))]
        ELSE [i |-> k + 1, escaped |-> FALSE, result |-> Append(out, b)]

\* Mutant: a byte that is copied does not clear the flag.
DecodeIter_StickyFlag(bytes, k, esc, out) ==
    LET b == bytes[k]
    IN  IF /\ b = \hEE
           /\ k + 2 <= Len(bytes)
           /\ need_escape(bytes[k + 1], bytes[k + 2])
        THEN LET b1 == bytes[k + 1]
                 b2 == bytes[k + 2]
             IN  IF b1 = \hBC /\ ~esc
                 THEN [i |-> k + 3, escaped |-> TRUE, result |-> out]
                 ELSE IF esc
                 THEN [i |-> k + 3, escaped |-> FALSE,
                       result |-> out \o <<b, b1, b2>>]
                 ELSE [i |-> k + 3, escaped |-> esc,
                       result |-> Append(out, BandByte(b1, b2))]
        ELSE [i |-> k + 1, escaped |-> esc, result |-> Append(out, b)]

\* One iteration of str_to_bytes' while-let loop at index k (1-based):
\* the iterator's next index, the flag and the Vec afterwards.
DecodeIter(bytes, k, esc, out) ==
    LET b == bytes[k]
    IN  IF /\ b = \hEE
           /\ k + 2 <= Len(bytes)
           /\ need_escape(bytes[k + 1], bytes[k + 2])
        THEN LET b1 == bytes[k + 1]
                 b2 == bytes[k + 2]
             IN  IF b1 = \hBC /\ ~esc
                 THEN [i |-> k + 3, escaped |-> TRUE, result |-> out]
                 ELSE IF esc
                 THEN [i |-> k + 3, escaped |-> FALSE,
                       result |-> out \o <<b, b1, b2>>]
                 ELSE [i |-> k + 3, escaped |-> esc,
                       result |-> Append(out, BandByte(b1, b2))]
        ELSE [i |-> k + 1, escaped |-> FALSE, result |-> Append(out, b)]

----------------------------------------------------------------------------
(* Inputs.                                                                 *)

RECURSIVE SeqsUpTo(_, _)
SeqsUpTo(S, n) ==
    IF n = 0 THEN {<<>>}
    ELSE LET shorter == SeqsUpTo(S, n - 1)
         IN  shorter \cup {Append(q, x) : q \in shorter, x \in S}

Chunks == {<<b>> : b \in RawBytes} \cup {Utf8Char(c) : c \in EncChars}

RECURSIVE Flatten(_)
Flatten(q) == IF q = <<>> THEN <<>> ELSE Head(q) \o Flatten(Tail(q))

\* Besides: every single byte, and every single char of U+EF00..U+EFFF.
ByteInputs ==
    {Flatten(q) : q \in SeqsUpTo(Chunks, MaxChunks)}
        \cup {<<b>> : b \in 0..255}
        \cup {Utf8Char(c) : c \in \hEF00..\hEFFF}

\* The texts of the doc examples of str_to_bytes that MaxChars leaves out.
DocTexts == {<<\hEF00, \h61, \h62, \h63>>, <<\hEF00, \h61, \h62, \h63, \hEFFF>>}

\* Besides: every char of the band alone and after U+EF00, and U+EF00 twice.
BandTexts ==
    {<<c>> : c \in \hEF80..\hEFFF}
        \cup {<<\hEF00, c>> : c \in {\hEF00} \cup (\hEF80..\hEFFF)}

TextInputs ==
    {AsBytes(cs) : cs \in SeqsUpTo(TextChars, MaxChars) \cup DocTexts \cup BandTexts}

----------------------------------------------------------------------------
(* The state machine.                                                      *)

Init ==
    /\ mode \in {"roundtrip", "decode"}
    /\ IF mode = "roundtrip"
       THEN /\ data \in ByteInputs
            /\ rest = data
            /\ s = <<>>
            /\ pc = "enc_loop"
       ELSE /\ data = <<>>
            /\ rest = <<>>
            /\ s \in TextInputs
            /\ pc = "dec_call"
    /\ result = <<>>
    /\ sKind = "none"
    /\ i = 0
    /\ escaped = FALSE
    /\ dKind = "none"
    /\ d = <<>>

\* Mutant: the zero-copy return does not look for 0xEE.
EncOk_NoLeadCheck ==
    /\ pc = "enc_loop"
    /\ rest # <<>>
    /\ from_utf8_ok(rest)
    /\ IF result = <<>>
       THEN /\ sKind' = "Borrowed"
            /\ s' = rest
            /\ pc' = "dec_call"
            /\ UNCHANGED <<rest, result>>
       ELSE /\ result' = extend_escaped_utf8(rest, result)
            /\ pc' = "enc_ret"
            /\ UNCHANGED <<rest, sKind, s>>
    /\ UNCHANGED <<mode, data, i, escaped, dKind, d>>

\* bytes_to_str, loop body, from_utf8(rest) is Ok: the zero-copy return,
\* or the last run is appended and the loop is left.
EncOk ==
    /\ pc = "enc_loop"
    /\ rest # <<>>
    /\ from_utf8_ok(rest)
    /\ IF result = <<>> /\ ~Contains(rest, \hEE)
       THEN /\ sKind' = "Borrowed"
            /\ s' = rest
            /\ pc' = "dec_call"
            /\ UNCHANGED <<rest, result>>
       ELSE /\ result' = extend_escaped_utf8(rest, result)
            /\ pc' = "enc_ret"
            /\ UNCHANGED <<rest, sKind, s>>
    /\ UNCHANGED <<mode, data, i, escaped, dKind, d>>

\* bytes_to_str, loop body, from_utf8(rest) is Err(e): the valid prefix is
\* appended, then the unit of rest[l], and rest is cut after rest[l].
EncErr ==
    /\ pc = "enc_loop"
    /\ rest # <<>>
    /\ ~from_utf8_ok(rest)
    /\ LET l == valid_up_to(rest)
       IN  IF l >= Len(rest)
           THEN \* rest[l]: index out of bounds
                /\ pc' = "panic"
                /\ UNCHANGED <<rest, result>>
           ELSE /\ result' = extend_escaped_utf8(SubSeq(rest, 1, l), result)
                              \o InvalidByteUnit(rest[l + 1])
                /\ rest' = AdvancePast(rest, l)
                /\ pc' = "enc_loop"
    /\ UNCHANGED <<mode, data, sKind, s, i, escaped, dKind, d>>

\* bytes_to_str after the loop: result becomes the String returned.  With
\* debug assertions from_utf8(result).unwrap() panics on ill-formed bytes;
\* without them from_utf8_unchecked on ill-formed bytes is undefined.
EncRet ==
    /\ \/ pc = "enc_ret"
       \/ (pc = "enc_loop" /\ rest = <<>>)
    /\ IF from_utf8_ok(result)
       THEN /\ sKind' = "Owned"
            /\ s' = result
            /\ result' = <<>>
            /\ pc' = "dec_call"
       ELSE /\ pc' \in {"panic", "undefined"}
            /\ UNCHANGED <<sKind, s, result>>
    /\ UNCHANGED <<mode, data, rest, i, escaped, dKind, d>>

\* str_to_bytes, entry: the zero-copy return, or the loop is set up.
DecCall ==
    /\ pc = "dec_call"
    /\ IF ~Contains(s, \hEE)
       THEN /\ dKind' = "Borrowed"
            /\ d' = s
            /\ pc' = "done"
            /\ UNCHANGED <<result, escaped, i>>
       ELSE /\ result' = <<>>
            /\ escaped' = FALSE
            /\ i' = 1
            /\ pc' = "dec_loop"
            /\ UNCHANGED <<dKind, d>>
    /\ UNCHANGED <<mode, data, rest, sKind, s>>

\* str_to_bytes, one iteration of the loop.
DecIter ==
    /\ pc = "dec_loop"
    /\ i <= Len(s)
    /\ LET n == DecodeIter(s, i, escaped, result)
       IN  /\ i' = n.i
           /\ escaped' = n.escaped
           /\ result' = n.result
    /\ UNCHANGED <<mode, pc, data, rest, sKind, s, dKind, d>>

\* str_to_bytes, the iterator is exhausted: Cow::Owned(result).
DecRet ==
    /\ pc = "dec_loop"
    /\ i > Len(s)
    /\ dKind' = "Owned"
    /\ d' = result
    /\ pc' = "done"
    /\ UNCHANGED <<mode, data, rest, result, sKind, s, i, escaped>>

Next == EncOk \/ EncErr \/ EncRet \/ DecCall \/ DecIter \/ DecRet

Spec == Init /\ [][Next]_vars

----------------------------------------------------------------------------
(* Reference notions the properties are stated with, on codepoints; the    *)
(* code works on bytes.                                                    *)

InBand(c) == c >= \hEF80 /\ c <= \hEFFF
Reserved(c) == c = \hEF00 \/ InBand(c)

\* The chars of well-formed UTF-8 bytes.
RECURSIVE CharsFrom(_, _)
CharsFrom(bytes, p) ==
    IF p > Len(bytes) THEN <<>>
    ELSE LET b0 == bytes[p]
             t(k) == bytes[p + k] - \h80
         IN  IF b0 < \h80 THEN <<b0>> \o CharsFrom(bytes, p + 1)
             ELSE IF b0 < \hE0 THEN
                 <<(b0 - \hC0) * 64 + t(1)>> \o CharsFrom(bytes, p + 2)
             ELSE IF b0 < \hF0 THEN
                 <<(b0 - \hE0) * 4096 + t(1) * 64 + t(2)>>
                     \o CharsFrom(bytes, p + 3)
             ELSE <<(b0 - \hF0) * 262144 + t(1) * 4096 + t(2) * 64 + t(3)>>
                     \o CharsFrom(bytes, p + 4)

Chars(bytes) == CharsFrom(bytes, 1)

\* The codepoint of the 3-byte unit at bytes[k], 0 when bytes[k] is not 0xEE.
UnitAt(bytes, k) ==
    IF k + 2 <= Len(bytes) /\ bytes[k] = \hEE
    THEN \hE000 + (bytes[k + 1] - \h80) * 64 + (bytes[k + 2] - \h80)
    ELSE 0

\* U+EF00 put before every reserved char of cs.
RECURSIVE RefEscape(_)
RefEscape(cs) ==
    IF cs = <<>> THEN <<>>
    ELSE (IF Reserved(Head(cs)) THEN <<\hEF00, Head(cs)>> ELSE <<Head(cs)>>)
             \o RefEscape(Tail(cs))

\* The bytes a text of chars cs stands for.
RECURSIVE RefDecode(_)
RefDecode(cs) ==
    IF cs = <<>> THEN <<>>
    ELSE LET c == Head(cs)
         IN  IF c = \hEF00 THEN
                 IF Len(cs) >= 2 /\ Reserved(cs[2])
                 THEN Utf8Char(cs[2]) \o RefDecode(Tail(Tail(cs)))
                 ELSE RefDecode(Tail(cs))
             ELSE IF InBand(c) THEN <<\h80 + (c - \hEF80)>> \o RefDecode(Tail(cs))
             ELSE Utf8Char(c) \o RefDecode(Tail(cs))

Failed == pc \in {"panic", "undefined"}
\* How far a run is from its end, by its position in the program.
Rank(p) ==
    CASE p = "enc_loop" -> 4
      [] p = "enc_ret" -> 3
      [] p = "dec_call" -> 2
      [] p = "dec_loop" -> 1
      [] OTHER -> 0
EncReturned == mode = "roundtrip" /\ sKind # "none"
DecReturned == pc = "done"
\* bytes_to_str is at the head of its loop with an ill-formed suffix.
AtFailure == pc = "enc_loop" /\ rest # <<>> /\ ~from_utf8_ok(rest)
\* str_to_bytes is about to read s[i].
AtUnit == pc = "dec_loop" /\ i <= Len(s)

----------------------------------------------------------------------------
\* C1: round trip. For every byte sequence data, str_to_bytes(bytes_to_str(data))
\* is reached without failure and equals data byte for byte.
C1_RoundTrip ==
    mode = "roundtrip" => /\ ~Failed
                          /\ DecReturned => d = data

C1_Witness ==
    /\ mode = "roundtrip"
    /\ DecReturned
    /\ data = Utf8Char(\hEF00) \o <<\hFF>> \o Utf8Char(\hEFFF)
    /\ s = AsBytes(<<\hEF00, \hEF00, \hEFFF, \hEF00, \hEFFF>>)
    /\ d = data

\* C2: validity. The bytes bytes_to_str accumulates in result are well-formed
\* UTF-8 after every iteration, the checked conversion never fails, and the
\* text it returns is well-formed UTF-8.
C2_Validity ==
    mode = "roundtrip" =>
        /\ pc \in {"enc_loop", "enc_ret"} => from_utf8_ok(result)
        /\ ~Failed
        /\ EncReturned => from_utf8_ok(s)

C2_Witness ==
    /\ EncReturned
    /\ sKind = "Owned"
    /\ data = <<\h80, \hC3, \h61>>
    /\ s = AsBytes(<<\hEF80, \hEFC3, \h61>>)

\* C3: totality. No run fails; every step moves on in the program or is a
\* loop iteration that shortens what is left to scan (rest in bytes_to_str,
\* the bytes from s[i] on in str_to_bytes), so every run ends; the failing
\* offset lies inside rest, and str_to_bytes' iterator never goes further
\* than one position past the end.
C3_Totality ==
    /\ [](~Failed)
    /\ [](AtFailure => valid_up_to(rest) < Len(rest))
    /\ [](pc = "dec_loop" => i >= 1 /\ i <= Len(s) + 1)
    /\ [][\/ Rank(pc') < Rank(pc)
          \/ /\ pc = "enc_loop" /\ pc' = "enc_loop"
             /\ Len(rest') < Len(rest)
          \/ /\ pc = "dec_loop" /\ pc' = "dec_loop"
             /\ Len(s) - i' < Len(s) - i]_vars

\* A dangling escape marker at the end of a text has been decoded.
C3_Witness ==
    /\ mode = "decode"
    /\ DecReturned
    /\ s = AsBytes(<<\hEFFF, \hEF00>>)
    /\ escaped
    /\ i = Len(s) + 1

\* C4: invalid-byte mapping. When validation of rest fails at offset l, the
\* byte b there is in 0x80..0xFF, result gains the escaped prefix of length
\* l and then the UTF-8 form of U+EF80 + (b - 0x80), and rest goes on at
\* offset l + 1; bytes_to_str([b]) is that one codepoint.
C4_InvalidByte ==
    /\ [][AtFailure =>
            LET l == valid_up_to(rest)
                b == rest[l + 1]
            IN  /\ b >= \h80 /\ b <= \hFF
                /\ result' = result
                       \o AsBytes(RefEscape(Chars(SubSeq(rest, 1, l))))
                       \o Utf8Char(\hEF80 + (b - \h80))
                /\ rest' = SubSeq(rest, l + 2, Len(rest))]_vars
    /\ [](EncReturned /\ Len(data) = 1 /\ data[1] >= \h80
            => s = Utf8Char(\hEF80 + (data[1] - \h80)))

C4_Witness ==
    /\ EncReturned
    /\ data = <<\hFF>>
    /\ s = Utf8Char(\hEFFF)

C6_BandDecoding ==
    /\ [][AtUnit /\ ~escaped /\ InBand(UnitAt(s, i)) =>
            /\ result' = Append(result, \h80 + (UnitAt(s, i) - \hEF80))
            /\ i' = i + 3
            /\ ~escaped']_vars
    /\ [](mode = "decode" /\ DecReturned =>
            /\ \A v \in \h80..\hFF :
                   s = Utf8Char(\hEF80 + (v - \h80)) => d = <<v>>
            /\ s = AsBytes(<<\hEF80, \hEFFF>>) => d = <<\h80, \hFF>>)

C6_Witness ==
    /\ mode = "decode"
    /\ DecReturned
    /\ s = AsBytes(<<\hEF80, \hEFFF>>)
    /\ d = <<\h80, \hFF>>

\* C7: un-escaping. U+EF00 read with the flag off adds nothing and sets the
\* flag; a char that is U+EF00 or in the band read with the flag on adds its
\* 3 bytes unchanged and clears the flag; the text U+EF00 C decodes to the
\* 3 bytes of C.
C7_Unescaping ==
    /\ [][AtUnit /\ ~escaped /\ UnitAt(s, i) = \hEF00 =>
            result' = result /\ i' = i + 3 /\ escaped']_vars
    /\ [][AtUnit /\ escaped /\ Reserved(UnitAt(s, i)) =>
            /\ result' = result \o Utf8Char(UnitAt(s, i))
            /\ i' = i + 3
            /\ ~escaped']_vars
    /\ [](mode = "decode" /\ DecReturned =>
            \A c \in {\hEF00} \cup (\hEF80..\hEFFF) :
                s = AsBytes(<<\hEF00, c>>) => d = Utf8Char(c))

C7_Witness ==
    /\ mode = "decode"
    /\ DecReturned
    /\ s = AsBytes(<<\hEF00, \hEFFF, \hEFFF>>)
    /\ d = Utf8Char(\hEFFF) \o <<\hFF>>

\* C8: dangling marker. U+EF00 read with the flag off that is followed by a
\* char that is neither U+EF00 nor in the band, or by the end of the text,
\* adds nothing: the next byte is copied with the flag cleared, the run
\* never fails, and the text decodes to what the text after the marker
\* stands for.
C8_DanglingMarker ==
    /\ [][AtUnit /\ escaped /\ ~Reserved(UnitAt(s, i)) =>
            /\ result' = Append(result, s[i])
            /\ i' = i + 1
            /\ ~escaped']_vars
    /\ [](mode = "decode" => ~Failed)
    /\ [](mode = "decode" /\ DecReturned =>
            LET cs == Chars(s)
            IN  /\ cs # <<>> /\ cs[1] = \hEF00
                      /\ (Len(cs) = 1 \/ ~Reserved(cs[2]))
                   => d = RefDecode(Tail(cs))
                /\ cs = <<\hEF00, \h61, \h62, \h63, \hEFFF>>
                   => d = <<\h61, \h62, \h63, \hFF>>
                /\ cs = <<\hEF00>> => d = <<>>)

C8_Witness ==
    /\ mode = "decode"
    /\ DecReturned
    /\ s = AsBytes(<<\hEF00, \h61, \h62, \h63, \hEFFF>>)
    /\ d = <<\h61, \h62, \h63, \hFF>>

\* C9: zero-copy. For every well-formed UTF-8 data without a 0xEE byte, the
\* empty one included, bytes_to_str returns data as Cow::Borrowed.
C9_ZeroCopy ==
    EncReturned /\ from_utf8_ok(data) /\ ~Contains(data, \hEE)
        => s = data /\ sKind = "Borrowed"

\* C10 as stated: either function returns Cow::Borrowed exactly when its
\* output equals its input, and Cow::Owned exactly when it differs.
C10_BorrowedIffUnchanged ==
    /\ EncReturned => (sKind = "Borrowed" <=> s = data)
    /\ DecReturned => (dKind = "Borrowed" <=> d = s)

\* C10 as amended: a borrowed result equals the input, so a result that
\* differs from the input is owned; bytes_to_str returns Cow::Owned whenever
\* data has a 0xEE byte or is not well-formed UTF-8, and str_to_bytes
\* returns Cow::Borrowed exactly when its text has no 0xEE byte, also when
\* the owned output equals the input.
C10_BorrowedOwned ==
    /\ EncReturned =>
          /\ sKind \in {"Borrowed", "Owned"}
          /\ sKind = "Borrowed" => s = data
          /\ Contains(data, \hEE) \/ ~from_utf8_ok(data) => sKind = "Owned"
    /\ DecReturned =>
          /\ dKind \in {"Borrowed", "Owned"}
          /\ dKind = "Borrowed" => d = s
          /\ dKind = "Borrowed" <=> ~Contains(s, \hEE)

\* Both functions returned Cow::Owned although nothing was transformed.
C10_Witness ==
    /\ mode = "roundtrip"
    /\ DecReturned
    /\ data = Utf8Char(\hE000)
    /\ sKind = "Owned" /\ s = data
    /\ dKind = "Owned" /\ d = s

=============================================================================
